---- MODULE Spec2Model ----
(***************************************************************************)
(* Model of SupportVectorMachine (src/SupportVectorMachine.cpp): the       *)
(* classifier that owns a libsvm model handle (_model) and the sparse      *)
(* training buffer (_data), with its train / predict / query / save / load *)
(* lifecycle.  train is modelled statement block by statement block (pc),  *)
(* every other member function is one atomic action.                       *)
(*                                                                         *)
(* A Feature is used by the code through the cv::Mat interface             *)
(* (size(), at<float>(row, col)); it is modelled as a continuous           *)
(* rows x cols matrix stored row-major in `data`.  at<float>(i, j) outside *)
(* the matrix raises in a build that checks it (checkedAt) and otherwise   *)
(* reads the float at that offset, an undetermined one past the storage.   *)
(*                                                                         *)
(* libsvm (svm_train, svm_predict_values, svm_load_model_fp,               *)
(* svm_save_model_fp) is external: each call is modelled by the outcomes   *)
(* its signature allows (a model or NULL, written or not).  Thrown         *)
(* messages are recorded by the error kind they stand for.                 *)
(***************************************************************************)
EXTENDS Integers, Sequences, FiniteSets, TLC

\* ---------------------------------------------------------------- bounds
MaxVecs == 2
MaxRows == 2
MaxCols == 1

\* Element values of the input descriptors: descriptor with base b holds
\* b, b+1, b+2, ... so that every element of a descriptor is distinguishable.
Bases == {100, 200}
\* Labels of the two classes; the label vector of length n alternates them.
LabelValues == <<0 - 1, 1>>

\* ------------------------------------------------------- program constants
\* index written into the node that terminates a sparse vector
SentinelIndex == 0 - 1

\* ------------------------------------------------------------ data model
Feature(r, c, b) == [rows |-> r, cols |-> c, data |-> [a \in 1..(r * c) |-> b + a - 1]]

NoFeature == [rows |-> 0, cols |-> 0, data |-> <<>>]

Features == {Feature(r, c, b) : r \in 1..MaxRows, c \in 1..MaxCols, b \in Bases}

\* cv::Size of a Mat: width = cols, height = rows
SizeOf(d) == [width |-> d.cols, height |-> d.rows]

SameShape(f) == \A a, b \in 1..Len(f) : SizeOf(f[a]) = SizeOf(f[b])

\* FeatureCollection arguments: batches of descriptors of one shape
Batches == {f \in UNION {[1..n -> Features] : n \in 0..MaxVecs} : SameShape(f)}

LabelVecs == {[k \in 1..n |-> LabelValues[1 + (k % 2)]] : n \in 0..MaxVecs}

Sizes == {[width |-> w, height |-> h] : w \in 0..MaxCols, h \in 0..MaxRows}

\* svm_model* : NULL, a model returned by svm_train (its support vectors
\* point into the training buffer), or a model returned by
\* svm_load_model_fp (it owns its support vectors).
NoModel == [origin |-> "null"]
LoadedModel == [origin |-> "load"]
TrainedModel == [origin |-> "train"]

\* svm_node* _data : NULL, a live array, or a pointer to a deleted array
NoData == [state |-> "null", nodes |-> <<>>]
FreedData == [state |-> "freed", nodes |-> <<>>]
LiveData(nodes) == [state |-> "live", nodes |-> nodes]

\* svm_node {index, value}; src tells where the value came from:
\* "elem" an element of the descriptor, "junk" a float read outside the
\* descriptor's storage (any value, not determined by the program),
\* "unset" the field was never written; iset: the index was written.
UnsetNode == [index |-> 0, value |-> 0, src |-> "unset", iset |-> FALSE]
IndexOnly(i) == [index |-> i, value |-> 0, src |-> "unset", iset |-> TRUE]
Node(i, v) == [index |-> i, value |-> v, src |-> "elem", iset |-> TRUE]
JunkNode(i) == [index |-> i, value |-> 0, src |-> "junk", iset |-> TRUE]

\* The latest call as its caller saw it: the member function, how it ended
\* ("ok", "throw", "crash", "running"), the kind of the thrown message, and
\* what the claims need of its arguments and its value: the svm_node array
\* and the descriptor of predict, the <<rows, cols>> of a template or of the
\* trained descriptors, <<labels.size(), fset.size()>>, and whether the
\* stream given to load decodes ("good", "bad").
Res(op, status, err) ==
    [op |-> op, status |-> status, err |-> err, nodes |-> <<>>,
     arg |-> NoFeature, shape |-> <<0, 0>>, sizes |-> <<0, 0>>, stream |-> "none"]

StreamKind(decoded) == IF decoded THEN "good" ELSE "bad"

VARIABLES _model, _data, _fVecShape, alive, checkedAt, pc,
          labels, fset, dim, result

vars == <<_model, _data, _fVecShape, alive, checkedAt, pc, labels, fset, dim, result>>

\* ------------------------------------------------------- cv::Mat access
\* Mat::at<float>(i, j): the assertion of a checked (debug) build
InRange(d, i, j) == i < d.rows /\ j < d.cols
\* element offset of (i, j) in a continuous Mat
Addr(d, i, j) == i * d.cols + j
InMem(d, i, j) == Addr(d, i, j) < Len(d.data)
Elem(d, i, j) == d.data[Addr(d, i, j) + 1]


\* ------------------------------------------------ construction, teardown
\* cv::Size(): the value of a cv::Size member no constructor names
DefaultSize == [width |-> 0, height |-> 0]

Init ==
    /\ _model = NoModel
    /\ _data = NoData
    /\ _fVecShape = DefaultSize
    /\ alive = TRUE
    /\ checkedAt \in BOOLEAN
    /\ pc = "idle"
    /\ labels = <<>>
    /\ fset = <<>>
    /\ dim = 0
    /\ result = Res("construct", "ok", "none")

\* faulty variant of _deinit: the buffer is not released
_deinit_keepData(m, d) == <<NoModel, d>>

\* _deinit(): frees what is held and nulls both members
_deinit(m, d) == <<NoModel, NoData>>

\* svm_load_model_fp(fp): a model, or NULL when the stream does not decode
svm_load_model_fp(decoded) == IF decoded THEN LoadedModel ELSE NoModel

\* faulty variant of load(FILE*): nothing is released when decoding fails
LoadOutcome_noDeinit(m, d, decoded) ==
    IF decoded THEN <<LoadedModel, NoData, "ok", "none">>
    ELSE <<m, d, "throw", "ModelError">>

\* load(FILE*): outcome <<_model, _data, status, err>>
LoadOutcome(m, d, decoded) ==
    LET cleared == _deinit(m, d)
        nm == svm_load_model_fp(decoded)
    IN  IF nm = NoModel
        THEN <<nm, cleared[2], "throw", "ModelError">>
        ELSE <<nm, cleared[2], "ok", "none">>

Idle == alive /\ pc = "idle"

TrainLocalsUnchanged == UNCHANGED <<labels, fset, dim>>

Construct ==
    /\ ~alive
    /\ _model' = NoModel
    /\ _data' = NoData
    /\ _fVecShape' = DefaultSize
    /\ alive' = TRUE
    /\ pc' = "idle"
    /\ labels' = <<>>
    /\ fset' = <<>>
    /\ dim' = 0
    /\ result' = Res("construct", "ok", "none")
    /\ UNCHANGED checkedAt

\* SupportVectorMachine(modelFName): members nulled, then load(modelFName);
\* an exception leaving the constructor leaves no object behind.
ConstructFromFile ==
    /\ ~alive
    /\ \E opened, decoded \in BOOLEAN :
        LET o == LoadOutcome(NoModel, NoData, decoded)
        IN  /\ _model' = IF opened THEN o[1] ELSE NoModel
            /\ _data' = NoData
            /\ alive' = (opened /\ o[3] = "ok")
            /\ result' = IF ~opened THEN Res("constructFromFile", "throw", "IOError")
                         ELSE Res("constructFromFile", o[3], o[4])
    /\ _fVecShape' = DefaultSize
    /\ pc' = "idle"
    /\ labels' = <<>>
    /\ fset' = <<>>
    /\ dim' = 0
    /\ UNCHANGED checkedAt

\* ~SupportVectorMachine()
Destroy ==
    /\ Idle
    /\ _model' = _deinit(_model, _data)[1]
    /\ _data' = _deinit(_model, _data)[2]
    /\ alive' = FALSE
    /\ result' = Res("destroy", "ok", "none")
    /\ UNCHANGED <<_fVecShape, checkedAt, pc>>
    /\ TrainLocalsUnchanged

\* ------------------------------------------------------------- load
LoadStream ==
    /\ Idle
    /\ \E decoded \in BOOLEAN :
        LET o == LoadOutcome(_model, _data, decoded)
        IN  /\ _model' = o[1]
            /\ _data' = o[2]
            /\ result' = [Res("load", o[3], o[4]) EXCEPT !.stream = StreamKind(decoded)]
    /\ UNCHANGED <<_fVecShape, alive, checkedAt, pc>>
    /\ TrainLocalsUnchanged

LoadPath ==
    /\ Idle
    /\ \E opened, decoded \in BOOLEAN :
        LET o == LoadOutcome(_model, _data, decoded)
        IN  IF ~opened
            THEN /\ result' = Res("loadPath", "throw", "IOError")
                 /\ UNCHANGED <<_model, _data>>
            ELSE /\ _model' = o[1]
                 /\ _data' = o[2]
                 /\ result' = [Res("loadPath", o[3], o[4]) EXCEPT !.stream = StreamKind(decoded)]
    /\ UNCHANGED <<_fVecShape, alive, checkedAt, pc>>
    /\ TrainLocalsUnchanged

\* ------------------------------------------------------------- queries
\* faulty variant of getBiasTerm's test: the model is not tested
BiasHasModel_unchecked(m) == TRUE

\* the `_model == NULL` tests of getBiasTerm, getWeights and save

BiasHasModel(m) == m # NoModel

WeightsHasModel(m) == m # NoModel

SaveHasModel(m) == m # NoModel

GetBiasTerm ==
    /\ Idle
    /\ result' = IF ~BiasHasModel(_model)
                 THEN Res("getBiasTerm", "throw", "StateError")
                 ELSE Res("getBiasTerm", "ok", "none")
    /\ UNCHANGED <<_model, _data, _fVecShape, alive, checkedAt, pc>>
    /\ TrainLocalsUnchanged

\* Mat::zeros(_fVecShape.width, _fVecShape.height, ...): <<rows, cols>>
WeightShape(sz) == <<sz.width, sz.height>>

GetWeights ==
    /\ Idle
    /\ result' = IF ~WeightsHasModel(_model)
                 THEN Res("getWeights", "throw", "StateError")
                 ELSE [Res("getWeights", "ok", "none") EXCEPT !.shape = WeightShape(_fVecShape)]
    /\ UNCHANGED <<_model, _data, _fVecShape, alive, checkedAt, pc>>
    /\ TrainLocalsUnchanged

\* save(FILE*): status and error, written = svm_save_model_fp returned 0
SaveOutcome(m, written) ==
    IF ~SaveHasModel(m) THEN <<"throw", "StateError">>
    ELSE IF ~written THEN <<"throw", "IOError">>
    ELSE <<"ok", "none">>

SaveStream ==
    /\ Idle
    /\ \E written \in BOOLEAN :
        result' = Res("save", SaveOutcome(_model, written)[1], SaveOutcome(_model, written)[2])
    /\ UNCHANGED <<_model, _data, _fVecShape, alive, checkedAt, pc>>
    /\ TrainLocalsUnchanged

SavePath ==
    /\ Idle
    /\ \E opened, written, closed \in BOOLEAN :
        LET o == SaveOutcome(_model, written)
        IN  result' = IF ~opened THEN Res("savePath", "throw", "IOError")
                      ELSE IF o[1] # "ok" THEN Res("savePath", o[1], o[2])
                      ELSE IF ~closed THEN Res("savePath", "throw", "IOError")
                      ELSE Res("savePath", "ok", "none")
    /\ UNCHANGED <<_model, _data, _fVecShape, alive, checkedAt, pc>>
    /\ TrainLocalsUnchanged


\* ------------------------------------------------------------- predict
\* rows whose at<float>(i, col) read leaves the matrix / its storage
BadRows(d, n, col) == {i \in 0..(n - 1) : ~InRange(d, i, col)}

\* the column predict reads: feature.at<float>(i,0)
PredictCol == 0

\* the svm_node array built by predict
PredictNodes(d) ==
    LET n == d.cols * d.rows
    IN  [p \in 1..(n + 1) |->
            IF p = n + 1 THEN IndexOnly(SentinelIndex)
            ELSE IF InMem(d, p - 1, PredictCol)
                 THEN Node(p - 1, Elem(d, p - 1, PredictCol))
                 ELSE JunkNode(p - 1)]

\* svm_predict_values(_model, ...): a NULL model is dereferenced, the
\* process dies or an unspecified value comes back
DecisionOutcomes(m) ==
    IF m = NoModel THEN {<<"crash", "none">>, <<"ok", "garbage">>}
    ELSE {<<"ok", "none">>}

\* predict(const Feature&): every <<status, err, nodes>> the call can end in
PredictOutcomes(m, d, chk) ==
    LET n == d.cols * d.rows
    IN  IF chk /\ BadRows(d, n, PredictCol) # {}
        THEN {<<"throw", "cv::Exception", <<>> >>}
        ELSE {<<o[1], o[2], PredictNodes(d)>> : o \in DecisionOutcomes(m)}

\* a crash ends the process: nothing of the classifier is left
AfterCall(status) ==
    IF status = "crash"
    THEN /\ alive' = FALSE
         /\ _model' = NoModel
         /\ _data' = NoData
    ELSE UNCHANGED <<alive, _model, _data>>

Predict ==
    /\ Idle
    /\ \E d \in Features :
       \E o \in PredictOutcomes(_model, d, checkedAt) :
        /\ result' = [Res("predict", o[1], o[2]) EXCEPT !.nodes = o[3], !.arg = d,
                                                        !.sizes = <<0, 1>>]
        /\ AfterCall(o[1])
    /\ UNCHANGED <<_fVecShape, checkedAt, pc>>
    /\ TrainLocalsUnchanged

\* predict(const FeatureCollection&): element by element, the first call
\* that does not return ends the loop
CanReturn(m, d, chk) == \E o \in PredictOutcomes(m, d, chk) : o[1] = "ok"

BatchOutcomes(m, f, chk) ==
    LET Each(e) == {<<o[1], o[2]>> : o \in PredictOutcomes(m, f[e], chk)}
        Reached == {e \in 1..Len(f) : \A j \in 1..(e - 1) : CanReturn(m, f[j], chk)}
        Failing == {q \in UNION {Each(e) : e \in Reached} : q[1] # "ok"}
        Returned == IF \E e \in 1..Len(f) : ~CanReturn(m, f[e], chk) THEN {}
                    ELSE IF Len(f) = 0 THEN {<<"ok", "none">>}
                    ELSE {q \in Each(Len(f)) : q[1] = "ok"}
    IN  Failing \cup Returned

PredictBatch ==
    /\ Idle
    /\ \E f \in Batches :
       \E o \in BatchOutcomes(_model, f, checkedAt) :
        /\ result' = [Res("predictBatch", o[1], o[2]) EXCEPT !.sizes = <<0, Len(f)>>]
        /\ AfterCall(o[1])
    /\ UNCHANGED <<_fVecShape, checkedAt, pc>>
    /\ TrainLocalsUnchanged


\* --------------------------------------------------------------- train
\* faulty variant of the size test: every pair of sizes passes
TrainCheck_none(l, f) == TRUE

\* line 32: the size test of train

TrainCheck(l, f) == Len(l) = Len(f)

\* the column train reads: currentFeature.at<float>(i,1)
TrainCol == 1

nVecs == Len(labels)

\* fset[k], k counted from 0
Vec(k) == IF k < Len(fset) THEN fset[k + 1] ELSE NoFeature

\* reads of the copy loop, in program order, that leave the matrix
TrainBad == {kv \in (0..(nVecs - 1)) \X (0..(dim - 1)) : ~InRange(Vec(kv[1]), kv[2], TrainCol)}

\* offset in _data of node i of vector k
Offset(k, i) == k * (dim + 1) + i

\* _data after the whole copy loop
FilledNodes ==
    [p \in 1..(nVecs * (dim + 1)) |->
        LET k == (p - 1) \div (dim + 1)
            i == (p - 1) % (dim + 1)
        IN  IF i = dim THEN IndexOnly(SentinelIndex)
            ELSE IF InMem(Vec(k), i, TrainCol)
                 THEN Node(i, Elem(Vec(k), i, TrainCol))
                 ELSE JunkNode(i)]

\* _data when the read at offset stop raised: nodes before it are complete,
\* the node at it has its index only, the rest was never written
PartialNodes(stop) ==
    [p \in 1..(nVecs * (dim + 1)) |->
        LET k == (p - 1) \div (dim + 1)
            i == (p - 1) % (dim + 1)
        IN  IF p - 1 > stop THEN UnsetNode
            ELSE IF p - 1 = stop THEN IndexOnly(i)
            ELSE IF i = dim THEN IndexOnly(SentinelIndex)
            ELSE Node(i, Elem(Vec(k), i, TrainCol))]

FirstBad == CHOOSE s \in {Offset(kv[1], kv[2]) : kv \in TrainBad} :
                \A kv \in TrainBad : s <= Offset(kv[1], kv[2])

\* lines 30-69: size test, nVecs, shape = fset[0].size(), dim, problem
TrainBegin ==
    /\ Idle
    /\ \E l \in LabelVecs, f \in Batches :
        IF ~TrainCheck(l, f)
        THEN /\ result' = [Res("train", "throw", "ValidationError")
                              EXCEPT !.sizes = <<Len(l), Len(f)>>]
             /\ UNCHANGED <<pc, labels, fset, dim, alive, _model, _data>>
        ELSE IF Len(f) = 0
        THEN \* fset[0] of an empty vector: the process dies, or some size is read
             \/ /\ result' = [Res("train", "crash", "none") EXCEPT !.sizes = <<Len(l), 0>>]
                /\ AfterCall("crash")
                /\ UNCHANGED <<pc, labels, fset, dim>>
             \/ /\ \E sz \in Sizes : dim' = sz.width * sz.height
                /\ labels' = l
                /\ fset' = f
                /\ pc' = "free_data"
                /\ result' = [Res("train", "running", "none") EXCEPT !.sizes = <<Len(l), 0>>]
                /\ UNCHANGED <<alive, _model, _data>>
        ELSE /\ dim' = SizeOf(f[1]).width * SizeOf(f[1]).height
             /\ labels' = l
             /\ fset' = f
             /\ pc' = "free_data"
             /\ result' = [Res("train", "running", "none")
                              EXCEPT !.sizes = <<Len(l), Len(f)>>,
                                     !.shape = <<f[1].rows, f[1].cols>>]
             /\ UNCHANGED <<alive, _model, _data>>
    /\ UNCHANGED <<_fVecShape, checkedAt>>

\* line 70: if(_data) delete [] _data;  (_data keeps the stale address)
TrainFreeData ==
    /\ alive /\ pc = "free_data"
    /\ _data' = IF _data.state # "null" THEN FreedData ELSE _data
    /\ pc' = "alloc_data"
    /\ UNCHANGED <<_model, _fVecShape, alive, checkedAt, labels, fset, dim, result>>

\* line 89: _data = new svm_node[nVecs * (dim + 1)];
TrainAllocData ==
    /\ alive /\ pc = "alloc_data"
    /\ _data' = LiveData([p \in 1..(nVecs * (dim + 1)) |-> UnsetNode])
    /\ pc' = "fill"
    /\ UNCHANGED <<_model, _fVecShape, alive, checkedAt, labels, fset, dim, result>>

\* lines 92-111: the copy loop
TrainFill ==
    /\ alive /\ pc = "fill"
    /\ IF checkedAt /\ TrainBad # {}
       THEN /\ _data' = LiveData(PartialNodes(FirstBad))
            /\ pc' = "idle"
            /\ result' = [Res("train", "throw", "cv::Exception")
                             EXCEPT !.sizes = result.sizes, !.shape = result.shape]
            /\ labels' = <<>>
            /\ fset' = <<>>
            /\ dim' = 0
       ELSE /\ _data' = LiveData(FilledNodes)
            /\ pc' = "free_model"
            /\ UNCHANGED <<result, labels, fset, dim>>
    /\ UNCHANGED <<_model, _fVecShape, alive, checkedAt>>

\* line 118: if(_model != NULL) svm_free_and_destroy_model(&_model);
TrainFreeModel ==
    /\ alive /\ pc = "free_model"
    /\ _model' = NoModel
    /\ pc' = "solve"
    /\ UNCHANGED <<_data, _fVecShape, alive, checkedAt, labels, fset, dim, result>>

\* lines 119-123: _model = svm_train(&problem, &parameter); cleanup; return
TrainSolve ==
    /\ alive /\ pc = "solve"
    /\ \E produced \in BOOLEAN :
        _model' = IF produced THEN TrainedModel ELSE NoModel
    /\ pc' = "idle"
    /\ result' = [Res("train", "ok", "none") EXCEPT !.sizes = result.sizes,
                                                    !.shape = result.shape]
    /\ labels' = <<>>
    /\ fset' = <<>>
    /\ dim' = 0
    /\ UNCHANGED <<_data, _fVecShape, alive, checkedAt>>

Next ==
    \/ Construct
    \/ ConstructFromFile
    \/ Destroy
    \/ LoadStream
    \/ LoadPath
    \/ GetBiasTerm
    \/ GetWeights
    \/ SaveStream
    \/ SavePath
    \/ Predict
    \/ PredictBatch
    \/ TrainBegin
    \/ TrainFreeData
    \/ TrainAllocData
    \/ TrainFill
    \/ TrainFreeModel
    \/ TrainSolve

Spec == Init /\ [][Next]_vars


\* ================================================================ claims
QueryOps == {"getBiasTerm", "getWeights", "save"}

\* C1: on a classifier that holds no model and no training buffer, each of
\* getBiasTerm(), getWeights() and save(stream) fails with StateError and
\* leaves the classifier holding no model and no buffer.
C1_QueriesWithoutModelFail ==
    [][(Idle /\ _model = NoModel /\ _data = NoData /\ result'.op \in QueryOps)
        => /\ result'.status = "throw"
           /\ result'.err = "StateError"
           /\ _model' = NoModel
           /\ _data' = NoData
           /\ alive']_vars

C1_Witness ==
    /\ alive
    /\ result.op = "getBiasTerm"
    /\ result.status = "throw"
    /\ result.err = "StateError"
    /\ _model = NoModel
    /\ _data = NoData

\* C2: predict(descriptor), and predict(batch) on a non-empty batch, on a
\* classifier that holds no model fails with StateError.
C2_PredictWithoutModelFails ==
    [][(/\ Idle
        /\ _model = NoModel
        /\ \/ result'.op = "predict"
           \/ result'.op = "predictBatch" /\ result'.sizes[2] > 0)
        => /\ result'.status = "throw"
           /\ result'.err = "StateError"]_vars

\* C3: train with len(labels) # len(batch) fails with ValidationError and
\* the model and the training buffer held before the call are the ones held
\* after it.
C3_SizeMismatchRejected ==
    [][(Idle /\ result'.op = "train" /\ result'.sizes[1] # result'.sizes[2])
        => /\ result'.status = "throw"
           /\ result'.err = "ValidationError"
           /\ _model' = _model
           /\ _data' = _data
           /\ pc' = "idle"
           /\ alive']_vars

C3_Witness ==
    /\ result.op = "train"
    /\ result.status = "throw"
    /\ result.err = "ValidationError"
    /\ result.sizes[1] # result.sizes[2]
    /\ _model = TrainedModel
    /\ _data.state = "live"

\* C4: load(stream) on a stream that does not decode fails with ModelError
\* or IOError and leaves the classifier holding no model, so that a
\* following getBiasTerm, getWeights or save fails with StateError.
C4_FailedLoadLeavesNoModel ==
    [][/\ (Idle /\ result'.op = "load" /\ result'.stream = "bad")
            => /\ result'.status = "throw"
               /\ result'.err \in {"ModelError", "IOError"}
               /\ _model' = NoModel
       /\ (/\ Idle
           /\ result.op = "load" /\ result.stream = "bad"
           /\ result'.op \in QueryOps)
            => /\ result'.status = "throw"
               /\ result'.err = "StateError"]_vars

C4_Witness ==
    /\ alive
    /\ result.op = "load"
    /\ result.stream = "bad"
    /\ result.status = "throw"
    /\ result.err = "ModelError"
    /\ _model = NoModel
    /\ _data = NoData

\* C6: getWeights() called after a successful train on a batch of descriptors
\* of one shape returns a template of exactly that shape.
C6_WeightsHaveTrainedShape ==
    [][(/\ Idle
        /\ result.op = "train" /\ result.status = "ok" /\ result.sizes[2] > 0
        /\ _model = TrainedModel
        /\ result'.op = "getWeights")
        => /\ result'.status = "ok"
           /\ result'.shape = result.shape]_vars

\* C7: train never returns normally while leaving the classifier without a
\* model (a solver that produces no model makes train fail with ModelError).
C7_TrainReturnsWithModel ==
    (result.op = "train" /\ result.status = "ok") => _model # NoModel

\* C8: after any completed sequence of operations the training buffer is
\* held if and only if the model is held, and after destroy neither is held.
C8_BufferIffModel ==
    /\ pc = "idle" => ((_data.state # "null") <=> (_model # NoModel))
    /\ ~alive => (_model = NoModel /\ _data = NoData)

\* C8 as amended: the buffer belongs to train alone.  After train returns
\* normally the buffer is held; after load(stream) the buffer is not held
\* and the model is held exactly when the load succeeded; after destroy
\* neither is held.
C8_BufferFollowsTrain ==
    /\ (result.op = "train" /\ result.status = "ok") => _data.state = "live"
    /\ result.op = "load" => /\ _data = NoData
                             /\ (_model # NoModel) <=> (result.status = "ok")
                             /\ (_model # NoModel) => _model = LoadedModel
    /\ result.op = "destroy" => (_model = NoModel /\ _data = NoData)

C8_Witness ==
    /\ alive
    /\ result.op = "load"
    /\ result.status = "ok"
    /\ _model = LoadedModel
    /\ _data = NoData

\* C9: within a re-train or re-load the prior model and the prior buffer are
\* both released before the new buffer or the new model is allocated, and at
\* no step does the classifier hold a model whose training buffer has been
\* released or replaced.
C9_ReleaseBeforeAllocate ==
    /\ pc = "alloc_data" => (_model = NoModel /\ _data.state # "live")
    /\ pc = "solve" => (_model = NoModel)
    /\ _model = TrainedModel => (_data.state = "live" /\ pc \notin {"fill", "free_model"})

\* C10: train and predict build the same sparse encoding: for a descriptor d
\* of dimension n, the n nodes (i, d[i]), i = 0..n-1, each with a defined
\* value, then one node of index -1; train stores it at offset k*(n+1).
Encodes(nodes, off, d) ==
    LET n == d.rows * d.cols
    IN  /\ Len(nodes) >= off + n + 1
        /\ \A i \in 0..(n - 1) : nodes[off + i + 1] = Node(i, d.data[i + 1])
        /\ nodes[off + n + 1].iset
        /\ nodes[off + n + 1].index = 0 - 1

C10_SameSparseEncoding ==
    /\ (pc \in {"free_model", "solve"})
        => \A k \in 0..(nVecs - 1) :
              Encodes(_data.nodes, k * (Vec(k).rows * Vec(k).cols + 1), Vec(k))
    /\ (result.op = "predict" /\ result.status = "ok")
        => (Len(result.nodes) = result.arg.rows * result.arg.cols + 1
            /\ Encodes(result.nodes, 0, result.arg))

====
